---- MODULE Spec2Model ----
(***************************************************************************)
(* State-machine model of ServiceBusAzureWatcher (src/index.js).           *)
(*                                                                         *)
(* One action is one callback of the Node.js event loop: a timer callback, *)
(* a queue-client callback together with the promise reactions it          *)
(* triggers (microtasks run before any other callback), or a call made by  *)
(* the embedder (onError, start, the completion callback of a message).    *)
(*                                                                         *)
(* A Worker Loop is a chain of readOneMessage calls and has no identity in *)
(* the code. The model counts the chains by where they are: a pending      *)
(* spin-up timer, a receive call in flight, a pending retry timer, a       *)
(* message held by the handler or by a delete / unlock call in flight, or  *)
(* ended (by the entry guard, or by an exception).                         *)
(*                                                                         *)
(* Events are observed per callback: lastOp, emitted, escaped and          *)
(* settledMsg describe the callback that led to the state. Messages have   *)
(* no identity either: msgs is the bag of the handles in flight. Of the    *)
(* history fields reported by getWatcherInfo the model keeps lastJobDoneAt *)
(* (lastJobDone is written with it).                                       *)
(***************************************************************************)
EXTENDS Integers, Sequences, FiniteSets, Bags

\* ---- bounds of the model ----
MaxConcurrency == 2
MaxLoops == 3
MaxListeners == 1
\* backlogs up to one more than the largest ceiling
MaxBacklog == MaxConcurrency + 1

\* ---- constants of the program ----
CHECK_CONCURRENCY_TIMER == 10000
RETRY_TIMER == 500
STAGGER_STEP == 25

ON_ERROR_READ_MESSAGE_FROM_AZURE == "on_error_read_message_from_azure"
QUEUE_NOT_FOUND == "queue_not_found"
ON_UNLOCK_MESSAGE_FROM_AZURE == "on_unlock_message_from_azure"
ON_REMOVE_MESSAGE_FROM_AZURE == "on_remove_unlock_message_from_azure"
ON_UNLOCK_MESSAGE_FROM_AZURE_MAX_ATTEMPTS == "on_unlock_message_from_azure_max_attempts"
ON_DELETE_MESSAGE_FROM_AZURE_MAX_ATTEMPTS == "on_delete_message_from_azure_max_attempts"
MAX_THREADS_EXCEEDED == "max_threads_exceeded"

\* The error statuses the program declares.
ErrorStatuses ==
  {ON_ERROR_READ_MESSAGE_FROM_AZURE, QUEUE_NOT_FOUND, ON_UNLOCK_MESSAGE_FROM_AZURE,
   ON_REMOVE_MESSAGE_FROM_AZURE, ON_UNLOCK_MESSAGE_FROM_AZURE_MAX_ATTEMPTS,
   ON_DELETE_MESSAGE_FROM_AZURE_MAX_ATTEMPTS, MAX_THREADS_EXCEEDED}

VARIABLES
  concurrency,          \* this.concurrency
  errorListeners,       \* number of listeners registered with onError
  startState,           \* "idle", "lookup" (start() awaits listQueues), "finished"
  queueData,            \* this.queueData
  isStartRunning,       \* this.isStartRunning
  maxThreadsCreated,    \* this.maxThreadsCreated
  spinTimers,           \* pending timers of startReceivingMessages, in order
  receiving,            \* receiveQueueMessage calls in flight
  retryTimers,          \* pending retry timers (their delays)
  returned,             \* chains ended by the entry guard of readOneMessage
  thrown,               \* chains ended by an exception
  msgs,                 \* bag of the message handles in flight: how far each is
  lastOp,               \* the callback that led to this state
  emitted,              \* the emit('error', ...) calls of that callback
  escaped,              \* exceptions / rejections that callback let out
  settledMsg,           \* the message whose delete / unlock call it ended
  attempts,             \* the client calls made for the call that callback ended
  crashed,              \* the runtime terminated the process on an exception
  debugEvents,          \* number of emit('debug', ...) calls
  startTimers,          \* pending timers set by start() (first monitor tick)
  checkTimers,          \* pending timers set by checkConcurrency()
  checkLookups,         \* listQueues calls of checkConcurrency() in flight
  lastJobDoneAt         \* "null" or "set": the value of Date.now() is not kept

config == <<concurrency, errorListeners>>
counter == <<isStartRunning, maxThreadsCreated>>
chains == <<spinTimers, receiving, retryTimers, returned, thrown>>
monitor == <<startTimers, checkTimers, checkLookups, debugEvents>>
jobStats == <<lastJobDoneAt>>
vars == <<concurrency, errorListeners, startState, queueData, isStartRunning,
          maxThreadsCreated, spinTimers, receiving, retryTimers, returned,
          thrown, msgs, lastOp, emitted, escaped, settledMsg, attempts, crashed,
          debugEvents, startTimers, checkTimers, checkLookups, lastJobDoneAt>>

\* ---- values ----
\* A queue descriptor; numeric says whether parseInt can read its
\* 'd2p1:ActiveMessageCount' text, n is the number it reads.
NullQueue == [present |-> FALSE, numeric |-> FALSE, n |-> 0]
Queue(numeric, n) == [present |-> TRUE, numeric |-> numeric, n |-> n]

\* What serviceBus.listQueues can answer.
ListQueuesAnswers ==
  {[kind |-> k, numeric |-> FALSE, n |-> 0] : k \in {"err", "notArray", "absent"}}
  \cup {[kind |-> "present", numeric |-> TRUE, n |-> k] : k \in 0..MaxBacklog}
  \cup {[kind |-> "present", numeric |-> FALSE, n |-> 0]}

\* The promise of ServiceBusPrivate.getQueueData for a listQueues answer.
getQueueData(answer) ==
  IF answer.kind \in {"err", "notArray"}
  THEN [rejected |-> TRUE, value |-> NullQueue]
  ELSE IF answer.kind = "absent"
       THEN [rejected |-> FALSE, value |-> NullQueue]
       ELSE [rejected |-> FALSE, value |-> Queue(answer.numeric, answer.n)]

\* parseInt(queueData.CountDetails['d2p1:ActiveMessageCount'], 10) || 0
currentMessagesInQueue(q) == IF q.numeric /\ q.n # 0 THEN q.n ELSE 0

\* new ErrorMessage(message, status, queueMessage); queueMessage is "null",
\* "message" (the message the failed delete / unlock call was made for) or
\* "received" (the message argument of a failed receive callback).
ErrorMessage(status, queueMessage) ==
  [payload |-> "ErrorMessage", status |-> status, queueMessage |-> queueMessage]

\* emit('error', 'start_error', new ErrorMessage(err, 'start_error', null)):
\* the listeners' first argument is the string 'start_error'.
StartErrorEvent ==
  [payload |-> "string", status |-> "undefined", queueMessage |-> "null"]

\* EventEmitter.emit('error', ...) throws when no 'error' listener is registered.
EmitThrows == errorListeners = 0

\* A message handle. stage: "handling" (the handler holds it), "removing" /
\* "unlocking" (its call is in flight), "settled" (the call has ended and the
\* handle is dropped), "none" (no handle).
NoMsg == [stage |-> "none", handled |-> 0, done |-> "no", deleteCalls |-> 0,
          unlockCalls |-> 0, outcome |-> "pending", nextReceives |-> 0]
NewMsg == [NoMsg EXCEPT !.stage = "handling", !.handled = 1]

One(rec) == SetToBag({rec})
Holding == BagCardinality(msgs)
HeldByHandler == IF BagIn(NewMsg, msgs) THEN CopiesIn(NewMsg, msgs) ELSE 0

\* The chains that are running, and all the chains ever launched.
LiveLoops == receiving + Len(retryTimers) + Holding
TotalLoops == Len(spinTimers) + LiveLoops + returned + thrown

\* ---- helpers shared by the actions ----
\* const optionRetryPromise = { retries: 3, maxTimeout: 4000 }: declared, and
\* passed to nothing.
optionRetryPromise == [retries |-> 3, maxTimeout |-> 4000]

\* The client calls behind a callback: getQueueData, unlockMessage and
\* removeMessage call the client once and settle their promise with its
\* answer; the other callbacks end no call of these.
clientCalls(op) ==
  IF op \in {"startLookupRejected", "startQueueNotFound", "startQueueFound",
             "checkLookupRejected", "checkQueueNotFound", "checkQueueFound",
             "unlockSettles", "removeSettles"}
  THEN 1
  ELSE 0

\* What a callback leaves behind: its name, the error events it emitted, the
\* number of exceptions or rejections nothing in the watcher caught, and the
\* message it settled. An exception reaches the runtime, which either
\* terminates the process or carries on.
Out(op, evs, n, sm) ==
  /\ lastOp' = op
  /\ attempts' = clientCalls(op)
  /\ emitted' = evs
  /\ escaped' = n
  /\ settledMsg' = sm
  /\ crashed' \in (IF n > 0 THEN BOOLEAN ELSE {FALSE})

\* A readOneMessage whose entry guard already fires at the ceiling.
readOneMessageGuardAtCeiling(mtc) ==
  IF mtc >= concurrency
  THEN [recv |-> 0, returned |-> 1, mtc |-> concurrency,
        evs |-> <<ErrorMessage(MAX_THREADS_EXCEEDED, "null")>>]
  ELSE [recv |-> 1, returned |-> 0, mtc |-> mtc, evs |-> <<>>]

\* readOneMessage() with the counter at mtc: the entry guard (clamp, emit,
\* return), else one receiveQueueMessage call.
readOneMessage(mtc) ==
  IF mtc > concurrency
  THEN [recv |-> 0, returned |-> 1, mtc |-> concurrency,
        evs |-> <<ErrorMessage(MAX_THREADS_EXCEEDED, "null")>>]
  ELSE [recv |-> 1, returned |-> 0, mtc |-> mtc, evs |-> <<>>]

\* The while loop of startReceivingMessages: i is never advanced, so every
\* timer is set with delay i + 25. k is the launch index of the timer.
RECURSIVE SpinLoop(_, _, _, _)
SpinLoop(maxCallsInvoked, backlog, mtc, timers) ==
  LET next == maxCallsInvoked + 1
      i == 0
  IN IF next < concurrency /\ next < backlog /\ mtc < concurrency
     THEN SpinLoop(next, backlog, mtc + 1,
                   Append(timers, [k |-> next, delay |-> i + STAGGER_STEP]))
     ELSE [mtc |-> mtc, timers |-> timers]

\* A startReceivingMessages whose while loop starts counting at 0, not at -1.
startReceivingMessagesFromZero(q) ==
  IF currentMessagesInQueue(q) = 0
  THEN LET r == readOneMessage(0 + 1)
       IN [mtc |-> r.mtc, running |-> TRUE, timers |-> <<>>, recv |-> r.recv,
           returned |-> r.returned, evs |-> r.evs]
  ELSE LET s == SpinLoop(0, currentMessagesInQueue(q), 0, <<>>)
       IN [mtc |-> s.mtc, running |-> FALSE, timers |-> s.timers, recv |-> 0,
           returned |-> 0, evs |-> <<>>]

\* startReceivingMessages() for the snapshot q: the counter, isStartRunning
\* on return, the timers set, the receive calls issued, the events emitted.
startReceivingMessages(q) ==
  IF currentMessagesInQueue(q) = 0
  THEN LET r == readOneMessage(0 + 1)
       IN [mtc |-> r.mtc, running |-> TRUE, timers |-> <<>>, recv |-> r.recv,
           returned |-> r.returned, evs |-> r.evs]
  ELSE LET s == SpinLoop(-1, currentMessagesInQueue(q), 0, <<>>)
       IN [mtc |-> s.mtc, running |-> FALSE, timers |-> s.timers, recv |-> 0,
           returned |-> 0, evs |-> <<>>]

Init ==
  /\ concurrency \in 1..MaxConcurrency
  /\ errorListeners = 0
  /\ startState = "idle"
  /\ queueData = NullQueue
  /\ isStartRunning = FALSE
  /\ maxThreadsCreated = 0
  /\ spinTimers = <<>>
  /\ receiving = 0
  /\ retryTimers = <<>>
  /\ returned = 0
  /\ thrown = 0
  /\ msgs = EmptyBag
  /\ lastOp = "new"
  /\ emitted = <<>>
  /\ escaped = 0
  /\ settledMsg = NoMsg
  /\ attempts = 0
  /\ crashed = FALSE
  /\ debugEvents = 0
  /\ startTimers = 0
  /\ checkTimers = 0
  /\ checkLookups = 0
  /\ lastJobDoneAt = "null"

\* ---- the embedder ----
\* onError(callback); the embedder registers its listeners before start(),
\* as the usage in the README does.
onError ==
  /\ ~crashed
  /\ startState = "idle"
  /\ errorListeners < MaxListeners
  /\ errorListeners' = errorListeners + 1
  /\ Out("onError", <<>>, 0, NoMsg)
  /\ UNCHANGED <<concurrency, startState, queueData, counter, chains, msgs,
                 monitor, jobStats>>

\* start(): the getQueueData call is issued.
start ==
  /\ ~crashed
  /\ startState = "idle"
  /\ startState' = "lookup"
  /\ Out("start", <<>>, 0, NoMsg)
  /\ UNCHANGED <<config, queueData, counter, chains, msgs, monitor, jobStats>>

\* start(): the lookup is rejected; the catch handler emits 'start_error'.
startLookupRejected ==
  /\ ~crashed
  /\ startState = "lookup"
  /\ \E answer \in ListQueuesAnswers :
       getQueueData(answer).rejected
  /\ startState' = "finished"
  /\ Out("startLookupRejected", <<StartErrorEvent>>,
         IF EmitThrows THEN 1 ELSE 0, NoMsg)
  /\ UNCHANGED <<config, queueData, counter, chains, msgs, monitor, jobStats>>

\* start(): the lookup resolves with null. The emit of queue_not_found is made
\* inside the then handler, so when it throws the catch handler runs as well.
startQueueNotFound ==
  /\ ~crashed
  /\ startState = "lookup"
  /\ \E answer \in ListQueuesAnswers :
       /\ ~getQueueData(answer).rejected
       /\ ~getQueueData(answer).value.present
  /\ startState' = "finished"
  /\ IF EmitThrows
     THEN Out("startQueueNotFound",
              <<ErrorMessage(QUEUE_NOT_FOUND, "null"), StartErrorEvent>>, 1, NoMsg)
     ELSE Out("startQueueNotFound",
              <<ErrorMessage(QUEUE_NOT_FOUND, "null")>>, 0, NoMsg)
  /\ UNCHANGED <<config, queueData, counter, chains, msgs, monitor, jobStats>>

\* start(): the lookup resolves with the queue: snapshot, spin-up, and the
\* timer of the first monitor tick. An exception of the spin-up is handled by
\* the catch handler and the timer is not set.
startQueueFound ==
  /\ ~crashed
  /\ startState = "lookup"
  /\ \E answer \in ListQueuesAnswers :
       /\ ~getQueueData(answer).rejected
       /\ getQueueData(answer).value.present
       /\ LET q == getQueueData(answer).value
              s == startReceivingMessages(q)
              failed == s.evs # <<>> /\ EmitThrows
          IN /\ queueData' = q
             /\ isStartRunning' = s.running
             /\ maxThreadsCreated' = s.mtc
             /\ spinTimers' = spinTimers \o s.timers
             /\ receiving' = receiving + s.recv
             /\ returned' = returned + s.returned
             /\ startTimers' = IF failed THEN startTimers ELSE startTimers + 1
             /\ IF failed
                THEN Out("startQueueFound", s.evs \o <<StartErrorEvent>>, 1, NoMsg)
                ELSE Out("startQueueFound", s.evs, 0, NoMsg)
  /\ startState' = "finished"
  /\ UNCHANGED <<config, retryTimers, thrown, msgs, checkTimers, checkLookups,
                 debugEvents, jobStats>>

\* ---- Worker Loops ----
\* A timer callback: readOneMessage().
timerCallback(op) ==
  LET r == readOneMessage(maxThreadsCreated)
  IN /\ receiving' = receiving + r.recv
     /\ returned' = returned + r.returned
     /\ maxThreadsCreated' = r.mtc
     /\ Out(op, r.evs, IF r.evs # <<>> /\ EmitThrows THEN 1 ELSE 0, NoMsg)

\* Timers fire in the order of their delays, and of their creation when the
\* delays are equal.
FirstTimer(timers) ==
  CHOOSE j \in 1..Len(timers) :
    \A k \in 1..Len(timers) :
       \/ timers[k].delay > timers[j].delay
       \/ timers[k].delay = timers[j].delay /\ k >= j

Without(seq, j) == SubSeq(seq, 1, j - 1) \o SubSeq(seq, j + 1, Len(seq))

\* A timer set by startReceivingMessages fires.
spinUpTimerFires ==
  /\ ~crashed
  /\ spinTimers # <<>>
  /\ spinTimers' = Without(spinTimers, FirstTimer(spinTimers))
  /\ timerCallback("spinUpTimerFires")
  /\ UNCHANGED <<config, startState, queueData, isStartRunning, retryTimers,
                 thrown, msgs, monitor, jobStats>>

\* A retry timer fires.
retryTimerFires ==
  /\ ~crashed
  /\ retryTimers # <<>>
  /\ retryTimers' = Tail(retryTimers)
  /\ timerCallback("retryTimerFires")
  /\ UNCHANGED <<config, startState, queueData, isStartRunning, spinTimers,
                 thrown, msgs, monitor, jobStats>>

\* A no-message branch that sets no retry timer.
receiveNoMessagesNoRetry ==
  /\ ~crashed
  /\ receiving > 0
  /\ receiving' = receiving - 1
  /\ retryTimers' = retryTimers
  /\ Out("receiveNoMessages", <<>>, 0, NoMsg)
  /\ UNCHANGED <<config, startState, queueData, counter, spinTimers, returned,
                 thrown, msgs, monitor, jobStats>>

\* receiveQueueMessage calls back with err === 'No messages to receive'.
receiveNoMessages ==
  /\ ~crashed
  /\ receiving > 0
  /\ receiving' = receiving - 1
  /\ retryTimers' = Append(retryTimers, RETRY_TIMER)
  /\ Out("receiveNoMessages", <<>>, 0, NoMsg)
  /\ UNCHANGED <<config, startState, queueData, counter, spinTimers, returned,
                 thrown, msgs, monitor, jobStats>>

\* receiveQueueMessage calls back with any other error: the event is emitted
\* before the retry timer is set.
receiveError ==
  /\ ~crashed
  /\ receiving > 0
  /\ receiving' = receiving - 1
  /\ IF EmitThrows
     THEN /\ thrown' = thrown + 1
          /\ retryTimers' = retryTimers
          /\ Out("receiveError",
                 <<ErrorMessage(ON_ERROR_READ_MESSAGE_FROM_AZURE, "received")>>, 1, NoMsg)
     ELSE /\ thrown' = thrown
          /\ retryTimers' = Append(retryTimers, RETRY_TIMER)
          /\ Out("receiveError",
                 <<ErrorMessage(ON_ERROR_READ_MESSAGE_FROM_AZURE, "received")>>, 0, NoMsg)
  /\ UNCHANGED <<config, startState, queueData, counter, spinTimers, returned,
                 msgs, monitor, jobStats>>

\* A message branch that issues the next receive call before the handler is
\* done with the message.
receiveMessageAndReceive ==
  /\ ~crashed
  /\ receiving > 0
  /\ receiving' = receiving
  /\ lastJobDoneAt' = "set"
  /\ msgs' = msgs (+) One(NewMsg)
  /\ Out("receiveMessage", <<>>, 0, NoMsg)
  /\ UNCHANGED <<config, startState, queueData, counter, spinTimers,
                 retryTimers, returned, thrown, monitor>>

\* receiveQueueMessage calls back with a message: done is built (which writes
\* lastJobDoneAt and lastJobDone) and the handler is invoked.
receiveMessage ==
  /\ ~crashed
  /\ receiving > 0
  /\ receiving' = receiving - 1
  /\ lastJobDoneAt' = "set"
  /\ msgs' = msgs (+) One(NewMsg)
  /\ Out("receiveMessage", <<>>, 0, NoMsg)
  /\ UNCHANGED <<config, startState, queueData, counter, spinTimers,
                 retryTimers, returned, thrown, monitor>>

\* The handler invokes the completion callback of the message m, once:
\* unlockMessage when err is truthy, removeMessage otherwise.
done(m, err) ==
  /\ ~crashed
  /\ BagIn(m, msgs)
  /\ m.stage = "handling"
  /\ msgs' = (msgs (-) One(m)) (+)
             One(IF err
                 THEN [m EXCEPT !.stage = "unlocking", !.done = "err",
                                !.unlockCalls = m.unlockCalls + 1]
                 ELSE [m EXCEPT !.stage = "removing", !.done = "ok",
                                !.deleteCalls = m.deleteCalls + 1])
  /\ Out("done", <<>>, 0, NoMsg)
  /\ UNCHANGED <<config, startState, queueData, counter, chains, monitor,
                 jobStats>>

\* What the queue client's unlockMessage / deleteMessage can call back with:
\* no error, an object with code '404', another object, a string.
AzureErrors == {"none", "obj404", "objOther", "string"}

\* ServiceBusPrivate.unlockMessage(message) for the client's callback value.
unlockMessage(err) ==
  [rejected |-> err # "none",
   isErrorMessage |-> err = "obj404",
   ev |-> ErrorMessage(ON_UNLOCK_MESSAGE_FROM_AZURE, "message")]

\* A removeMessage that wraps every failure in an ErrorMessage.
removeMessageWrapsAll(err) ==
  [rejected |-> err # "none",
   isErrorMessage |-> err # "none",
   ev |-> ErrorMessage(ON_REMOVE_MESSAGE_FROM_AZURE, "message")]

\* ServiceBusPrivate.removeMessage(message) for the client's callback value.
removeMessage(err) ==
  [rejected |-> err # "none",
   isErrorMessage |-> err = "obj404",
   ev |-> ErrorMessage(ON_REMOVE_MESSAGE_FROM_AZURE, "message")]

\* The record of the message m once its call has ended with the client's
\* callback value err and its continuation has issued `received` receive calls.
Settled(m, err, received) ==
  [m EXCEPT !.stage = "settled", !.outcome = err,
            !.nextReceives = m.nextReceives + received]

\* The then / catch pair attached in done to the promise p, which the call for
\* the message m returned for the client's callback value err.
\* then: readOneMessage(). catch: emit the error when it is an ErrorMessage,
\* readOneMessage(). An exception of the then handler is handled by the catch
\* handler, which emits it again. (lastJobErrorDone, which the catch handler
\* also writes, is not part of the model.)
settled(op, m, err, p) ==
  LET r == readOneMessage(maxThreadsCreated)
      rThrows == r.evs # <<>> /\ EmitThrows
  IN /\ msgs' = msgs (-) One(m)
     /\ IF ~p.rejected
        THEN /\ receiving' = receiving + r.recv
             /\ returned' = returned + r.returned
             /\ thrown' = thrown
             /\ maxThreadsCreated' = r.mtc
             /\ IF rThrows
                THEN Out(op, r.evs \o r.evs, 1, Settled(m, err, r.recv))
                ELSE Out(op, r.evs, 0, Settled(m, err, r.recv))
        ELSE IF p.isErrorMessage /\ EmitThrows
             THEN /\ receiving' = receiving
                  /\ returned' = returned
                  /\ thrown' = thrown + 1
                  /\ maxThreadsCreated' = maxThreadsCreated
                  /\ Out(op, <<p.ev>>, 1, Settled(m, err, 0))
             ELSE /\ receiving' = receiving + r.recv
                  /\ returned' = returned + r.returned
                  /\ thrown' = thrown
                  /\ maxThreadsCreated' = r.mtc
                  /\ Out(op, (IF p.isErrorMessage THEN <<p.ev>> ELSE <<>>) \o r.evs,
                         IF rThrows THEN 1 ELSE 0, Settled(m, err, r.recv))

\* The client answers the unlockMessage call for m.
unlockSettles(m) ==
  /\ ~crashed
  /\ BagIn(m, msgs)
  /\ m.stage = "unlocking"
  /\ \E err \in AzureErrors : settled("unlockSettles", m, err, unlockMessage(err))
  /\ UNCHANGED <<config, startState, queueData, isStartRunning, spinTimers,
                 retryTimers, monitor, jobStats>>

\* The client answers the deleteMessage call for m.
removeSettles(m) ==
  /\ ~crashed
  /\ BagIn(m, msgs)
  /\ m.stage = "removing"
  /\ \E err \in AzureErrors : settled("removeSettles", m, err, removeMessage(err))
  /\ UNCHANGED <<config, startState, queueData, isStartRunning, spinTimers,
                 retryTimers, monitor, jobStats>>

\* ---- ConcurrencyMonitor ----
\* checkConcurrency(): the lookup is issued only when a snapshot exists.
checkConcurrency(lookups) == IF queueData.present THEN lookups + 1 ELSE lookups

\* A timer of start() that may fire before the spin-up timers.
SpinUpTimersIgnored == TRUE

\* The timer of start() is set in the same callback as the spin-up timers, so
\* it fires after those of them whose delay is not longer.
SpinUpTimersFired ==
  \A j \in 1..Len(spinTimers) : spinTimers[j].delay > CHECK_CONCURRENCY_TIMER

\* The timer set by start() fires: debug event, first checkConcurrency().
startTimerFires ==
  /\ ~crashed
  /\ startTimers > 0
  /\ SpinUpTimersFired
  /\ startTimers' = startTimers - 1
  /\ debugEvents' = debugEvents + 1
  /\ checkLookups' = checkConcurrency(checkLookups)
  /\ Out("startTimerFires", <<>>, 0, NoMsg)
  /\ UNCHANGED <<config, startState, queueData, counter, chains, msgs,
                 checkTimers, jobStats>>

\* A timer set by checkConcurrency() fires: checkConcurrency().
checkTimerFires ==
  /\ ~crashed
  /\ checkTimers > 0
  /\ checkTimers' = checkTimers - 1
  /\ checkLookups' = checkConcurrency(checkLookups)
  /\ Out("checkTimerFires", <<>>, 0, NoMsg)
  /\ UNCHANGED <<config, startState, queueData, counter, chains, msgs,
                 startTimers, debugEvents, jobStats>>

\* checkConcurrency(): the lookup is rejected. The catch handler emits and
\* then sets the next timer.
checkLookupRejected ==
  /\ ~crashed
  /\ checkLookups > 0
  /\ \E answer \in ListQueuesAnswers :
       getQueueData(answer).rejected
  /\ checkLookups' = checkLookups - 1
  /\ checkTimers' = IF EmitThrows THEN checkTimers ELSE checkTimers + 1
  /\ Out("checkLookupRejected", <<StartErrorEvent>>,
         IF EmitThrows THEN 1 ELSE 0, NoMsg)
  /\ UNCHANGED <<config, startState, queueData, counter, chains, msgs,
                 startTimers, debugEvents, jobStats>>

\* checkConcurrency(): the lookup resolves with null. The then handler sets
\* the next timer and then emits; when the emit throws, the catch handler
\* emits too and does not reach its own setTimeout.
checkQueueNotFound ==
  /\ ~crashed
  /\ checkLookups > 0
  /\ \E answer \in ListQueuesAnswers :
       /\ ~getQueueData(answer).rejected
       /\ ~getQueueData(answer).value.present
  /\ checkLookups' = checkLookups - 1
  /\ checkTimers' = checkTimers + 1
  /\ IF EmitThrows
     THEN Out("checkQueueNotFound",
              <<ErrorMessage(QUEUE_NOT_FOUND, "null"), StartErrorEvent>>, 1, NoMsg)
     ELSE Out("checkQueueNotFound",
              <<ErrorMessage(QUEUE_NOT_FOUND, "null")>>, 0, NoMsg)
  /\ UNCHANGED <<config, startState, queueData, counter, chains, msgs,
                 startTimers, debugEvents, jobStats>>

\* The while loop of checkConcurrency: the counter is raised and
\* readOneMessage() is called until the counter reaches the ceiling.
RECURSIVE scaleUp(_, _, _, _)
scaleUp(mtc, recv, ret, evs) ==
  IF mtc < concurrency
  THEN LET r == readOneMessage(mtc + 1)
       IN IF r.evs # <<>> /\ EmitThrows
          THEN [mtc |-> r.mtc, recv |-> recv + r.recv, returned |-> ret + r.returned,
                evs |-> evs \o r.evs, failed |-> TRUE]
          ELSE scaleUp(r.mtc, recv + r.recv, ret + r.returned, evs \o r.evs)
  ELSE [mtc |-> mtc, recv |-> recv, returned |-> ret, evs |-> evs, failed |-> FALSE]

\* A decision that scales up whenever the backlog exceeds the counter.
rescaleByCounter(backlog, mtc) ==
  IF backlog = 0
  THEN [mtc |-> 1, recv |-> 0, returned |-> 0, evs |-> <<>>, failed |-> FALSE]
  ELSE IF backlog > mtc /\ mtc < concurrency
       THEN scaleUp(mtc, 0, 0, <<>>)
       ELSE IF backlog < mtc
            THEN [mtc |-> backlog, recv |-> 0, returned |-> 0, evs |-> <<>>,
                  failed |-> FALSE]
            ELSE [mtc |-> mtc, recv |-> 0, returned |-> 0, evs |-> <<>>,
                  failed |-> FALSE]

\* The decision of checkConcurrency for the refreshed backlog and the counter.
rescale(backlog, mtc) ==
  IF backlog = 0
  THEN [mtc |-> 1, recv |-> 0, returned |-> 0, evs |-> <<>>, failed |-> FALSE]
  ELSE IF backlog > concurrency /\ mtc < concurrency
       THEN scaleUp(mtc, 0, 0, <<>>)
       ELSE IF backlog < mtc
            THEN [mtc |-> backlog, recv |-> 0, returned |-> 0, evs |-> <<>>,
                  failed |-> FALSE]
            ELSE [mtc |-> mtc, recv |-> 0, returned |-> 0, evs |-> <<>>,
                  failed |-> FALSE]

\* checkConcurrency(): the lookup resolves with the queue. An exception of the
\* while loop is handled by the catch handler, whose emit throws as well.
checkQueueFound ==
  /\ ~crashed
  /\ checkLookups > 0
  /\ \E answer \in ListQueuesAnswers :
       /\ ~getQueueData(answer).rejected
       /\ getQueueData(answer).value.present
       /\ LET q == getQueueData(answer).value
              s == rescale(currentMessagesInQueue(q), maxThreadsCreated)
          IN /\ TotalLoops + s.recv + s.returned <= MaxLoops
             /\ queueData' = q
             /\ maxThreadsCreated' = s.mtc
             /\ receiving' = receiving + s.recv
             /\ returned' = returned + s.returned
             /\ checkTimers' = IF s.failed THEN checkTimers ELSE checkTimers + 1
             /\ IF s.failed
                THEN Out("checkQueueFound", s.evs \o <<StartErrorEvent>>, 1, NoMsg)
                ELSE Out("checkQueueFound", s.evs, 0, NoMsg)
  /\ checkLookups' = checkLookups - 1
  /\ UNCHANGED <<config, startState, isStartRunning, spinTimers, retryTimers,
                 thrown, msgs, startTimers, debugEvents, jobStats>>

\* ---- the system ----
Next ==
  \/ onError
  \/ start
  \/ startLookupRejected
  \/ startQueueNotFound
  \/ startQueueFound
  \/ spinUpTimerFires
  \/ retryTimerFires
  \/ receiveNoMessages
  \/ receiveError
  \/ receiveMessage
  \/ \E m \in BagToSet(msgs) : \E err \in BOOLEAN : done(m, err)
  \/ \E m \in BagToSet(msgs) : unlockSettles(m)
  \/ \E m \in BagToSet(msgs) : removeSettles(m)
  \/ startTimerFires
  \/ checkTimerFires
  \/ checkLookupRejected
  \/ checkQueueNotFound
  \/ checkQueueFound

Spec == Init /\ [][Next]_vars

\* ---- the claims ----
\* The Worker Loops the claims count as live: awaiting a receive, waiting on a
\* retry timer, or holding a message handed to the handler.
LoopsAtWork == receiving + Len(retryTimers) + HeldByHandler

\* C1: the number of live Worker Loops never exceeds the ceiling, and so the
\* number of messages held by the handler at one time never exceeds it.
C1_LiveLoopsWithinCeiling ==
  /\ LoopsAtWork <= concurrency
  /\ HeldByHandler <= concurrency

\* C2: the worker counter stays within 0..C, is at least 1 once the spin-up of
\* a successful start() has run, the entry guard of readOneMessage never fires
\* and no max_threads_exceeded event is published.
C2_CounterWithinCeiling ==
  /\ maxThreadsCreated \in 0..concurrency
  /\ (startState = "finished" /\ queueData.present => maxThreadsCreated >= 1)
  /\ returned = 0
  /\ \A j \in 1..Len(emitted) : emitted[j].status # MAX_THREADS_EXCEEDED

\* A loop calls readOneMessage again, after the first tick, while the counter
\* has been lowered to 1 below a ceiling of at least 2 and as many loops as the
\* ceiling are running.
C2_Witness ==
  /\ lastOp = "removeSettles"
  /\ debugEvents = 1
  /\ concurrency > 1
  /\ maxThreadsCreated = 1
  /\ LiveLoops >= concurrency

\* C3: a successful start() launches exactly 1 Worker Loop when the backlog is
\* 0 and exactly min(C, B) when it is B > 0, and the worker counter equals the
\* number of loops launched. (Until the first tick fires, the snapshot is the
\* one start() took and every loop is one that start() launched.)
C3_SpinUpLaunches ==
  startTimers = 1 =>
    LET B == currentMessagesInQueue(queueData)
        launches == IF B = 0 THEN 1 ELSE IF concurrency < B THEN concurrency ELSE B
    IN /\ TotalLoops = launches
       /\ maxThreadsCreated = launches
       /\ returned = 0

\* The spin-up for a backlog above a ceiling of at least 2 has run to its end.
C3_Witness ==
  /\ startTimers = 1
  /\ spinTimers = <<>>
  /\ concurrency > 1
  /\ currentMessagesInQueue(queueData) > concurrency
  /\ LiveLoops = concurrency

\* C4: for a message whose completion callback was invoked with no error,
\* exactly one delete call and no unlock call is issued, and when the delete
\* call has ended (success, 404, other error) the loop has issued exactly one
\* subsequent receive call.
C4_DeleteThenOneReceive ==
  /\ \A m \in BagToSet(msgs) :
       m.done = "ok" => m.deleteCalls = 1 /\ m.unlockCalls = 0
  /\ settledMsg.done = "ok" =>
       /\ settledMsg.deleteCalls = 1
       /\ settledMsg.unlockCalls = 0
       /\ settledMsg.nextReceives = 1

\* C5: for a message whose completion callback was invoked with an error,
\* exactly one unlock call and no delete call is issued, and when the unlock
\* call has ended (success or failure) the loop has issued exactly one
\* subsequent receive call.
C5_UnlockThenOneReceive ==
  /\ \A m \in BagToSet(msgs) :
       m.done = "err" => m.unlockCalls = 1 /\ m.deleteCalls = 0
  /\ settledMsg.done = "err" =>
       /\ settledMsg.unlockCalls = 1
       /\ settledMsg.deleteCalls = 0
       /\ settledMsg.nextReceives = 1

C7_IdlePollRetries ==
  [][lastOp' = "receiveNoMessages" =>
       /\ emitted' = <<>>
       /\ escaped' = 0
       /\ msgs' = msgs
       /\ retryTimers' = Append(retryTimers, 500)
       /\ receiving' = receiving - 1
       /\ spinTimers' = spinTimers
       /\ LiveLoops' = LiveLoops
       /\ thrown' = thrown /\ returned' = returned]_vars

\* Two loops at least are running and one of them has just polled an empty
\* queue.
C7_Witness ==
  /\ lastOp = "receiveNoMessages"
  /\ retryTimers # <<>>
  /\ LiveLoops >= 2

\* C8: a receive call that fails with another error publishes exactly one
\* error event with status on_error_read_message_from_azure, does not invoke
\* the handler, and sets a retry timer of 500 ms: the failure lets no
\* exception out and does not stop the loop.
C8_ReceiveFailureRetries ==
  lastOp = "receiveError" =>
    /\ Len(emitted) = 1
    /\ emitted[1].status = ON_ERROR_READ_MESSAGE_FROM_AZURE
    /\ settledMsg = NoMsg
    /\ escaped = 0
    /\ retryTimers # <<>>
    /\ retryTimers[Len(retryTimers)] = 500

\* C9: when the lookup of start() reports that the queue does not exist,
\* exactly one event with status queue_not_found is published (and nothing
\* else reaches a listener), no Worker Loop is launched, the snapshot stays
\* null and no tick is scheduled, then or later; after a successful lookup the
\* first tick is only scheduled by the 10 000 ms timer, and it fires after
\* the timers of the spin-up.
C9_StartLookup ==
  /\ lastOp = "startQueueNotFound" =>
       /\ Cardinality({j \in 1..Len(emitted) :
                         emitted[j].status = QUEUE_NOT_FOUND}) = 1
       /\ errorListeners > 0 => Len(emitted) = 1
  /\ ~queueData.present =>
       /\ queueData = NullQueue
       /\ TotalLoops = 0 /\ receiving = 0 /\ maxThreadsCreated = 0
       /\ startTimers = 0 /\ checkTimers = 0 /\ checkLookups = 0
  /\ lastOp = "startQueueFound" =>
       startTimers = 1 /\ checkTimers = 0 /\ checkLookups = 0 /\ debugEvents = 0
  /\ startTimers = 1 => checkTimers = 0 /\ checkLookups = 0 /\ debugEvents = 0
  /\ lastOp = "startTimerFires" =>
       /\ \A j \in 1..Len(spinTimers) : spinTimers[j].delay > 10000
       /\ spinTimers = <<>>

\* The lookup of start() has reported that the queue does not exist, to a
\* listener.
C9_Witness ==
  /\ lastOp = "startQueueNotFound"
  /\ errorListeners > 0
  /\ startState = "finished"

C11_ScaleUpAboveCounter ==
  [][/\ lastOp' = "checkQueueFound"
     /\ currentMessagesInQueue(queueData) = 0
     /\ maxThreadsCreated = 1
     /\ TotalLoops > 1
     /\ maxThreadsCreated < concurrency
     /\ currentMessagesInQueue(queueData') > maxThreadsCreated
     => /\ maxThreadsCreated' > maxThreadsCreated
        /\ maxThreadsCreated' <= concurrency
        /\ receiving' > receiving]_vars

\* C12: an error event for a failed lookup, or for a delete / unlock call
\* failed with an error other than 404, reaches a listener only after the
\* third failed attempt of that call.
C12_ThreeAttemptsBeforeError ==
  /\ errorListeners > 0
  /\ emitted # <<>>
  /\ \/ lastOp \in {"startLookupRejected", "checkLookupRejected"}
     \/ /\ lastOp \in {"unlockSettles", "removeSettles"}
        /\ settledMsg.outcome \in {"objOther", "string"}
  => attempts = 3

\* C13: every error event delivered to a listener has an ErrorMessage as its
\* payload, whose status is one of the declared status codes.
C13_ErrorPayload ==
  errorListeners > 0 =>
    \A j \in 1..Len(emitted) :
      /\ emitted[j].payload = "ErrorMessage"
      /\ emitted[j].status \in ErrorStatuses

\* C14: no failure leaves the watcher as an exception or as an unhandled
\* rejection, with any number of error listeners: no callback lets one out, no
\* Worker Loop is ended by one and the process is not terminated by one.
C14_NoFailureEscapes ==
  /\ escaped = 0
  /\ thrown = 0
  /\ ~crashed

\* C15: the spin-up timer of launch index k is set 25 x k ms after the first
\* one, so the delays of successive timers are strictly increasing and no two
\* loops of the spin-up issue their first receive at the same delay. (The
\* delays are compared with that of the first pending timer, so a common
\* offset is allowed.)
C15_StaggeredSpinUp ==
  \A j1, j2 \in 1..Len(spinTimers) :
    j1 < j2 =>
      /\ spinTimers[j1].delay < spinTimers[j2].delay
      /\ spinTimers[j2].delay - spinTimers[j1].delay
           = 25 * (spinTimers[j2].k - spinTimers[j1].k)

\* C16: a tick whose refresh fails (queue reported as not found, or lookup
\* rejected) publishes exactly one error event, schedules the next tick, and
\* leaves the worker counter, the live Worker Loops and the snapshot unchanged.
C16_FailedRefresh ==
  [][lastOp' \in {"checkLookupRejected", "checkQueueNotFound"} =>
       /\ Len(emitted') = 1
       /\ checkTimers' = checkTimers + 1
       /\ checkLookups' = checkLookups - 1
       /\ maxThreadsCreated' = maxThreadsCreated
       /\ queueData' = queueData
       /\ UNCHANGED <<spinTimers, receiving, retryTimers, returned, thrown, msgs>>]_vars

\* C17: after a successful start() exactly one tick is pending (its timer is
\* set) or running (its lookup is in flight) at any time: the monitor neither
\* stops nor forks.
C17_OneTickPending ==
  queueData.present => startTimers + checkTimers + checkLookups = 1

\* C18: the steps of a Worker Loop are sequential. Receiving a message invokes
\* the handler once for it and issues no receive call; the completion callback
\* turns that one message over to its delete / unlock call and issues no
\* receive call; while a message is held, by the handler or by its call, its
\* loop has issued no further receive call, and the end of the call issues at
\* most one.
C18_SequentialLoop ==
  [][/\ lastOp' = "receiveMessage" =>
          /\ receiving' = receiving - 1
          /\ msgs' = msgs (+) One(NewMsg)
          /\ LiveLoops' = LiveLoops
          /\ UNCHANGED <<spinTimers, retryTimers>>
     /\ lastOp' = "done" =>
          /\ receiving' = receiving
          /\ Holding' = Holding
          /\ HeldByHandler' = HeldByHandler - 1
          /\ UNCHANGED <<spinTimers, retryTimers>>
     /\ lastOp' \in {"unlockSettles", "removeSettles"} =>
          /\ Holding' = Holding - 1
          /\ receiving' - receiving = settledMsg'.nextReceives
          /\ settledMsg'.nextReceives <= 1
          /\ UNCHANGED <<spinTimers, retryTimers>>
     /\ \A m \in BagToSet(msgs') : m.handled = 1 /\ m.nextReceives = 0
     /\ settledMsg'.stage = "settled" => settledMsg'.handled = 1]_vars

\* Two loops hold a message each and no receive call is in flight: one
\* message is still with the handler while the delete call of the other is
\* in flight.
C18_Witness ==
  /\ lastOp = "done"
  /\ HeldByHandler >= 1
  /\ Holding >= 2
  /\ receiving = 0
  /\ retryTimers = <<>>
  /\ spinTimers = <<>>

\* C19: no receive result, delete / unlock outcome or monitor tick brings a
\* launched Worker Loop to a terminal state: no loop is ended by the entry
\* guard of readOneMessage or by an exception.
C19_NoLoopEnds ==
  /\ returned = 0
  /\ thrown = 0

\* C20: the completion record (lastJobDoneAt, and lastJobDone with it) is
\* written when a completion callback has been invoked and its delete has
\* succeeded: receiving a message leaves the record unchanged, and every other
\* callback but the end of a successful delete does too.
C20_CompletionRecord ==
  [][lastJobDoneAt' # lastJobDoneAt =>
       /\ lastOp' = "removeSettles"
       /\ settledMsg'.outcome = "none"]_vars

\* C21: isStartRunning is true only while startReceivingMessages is executing:
\* in every state after the spin-up of a successful start() has returned, for
\* every initial backlog, the flag reported by getWatcherInfo is false. (No
\* state of the model lies inside a callback, so the flag is false in all.)
C21_StartFlagCleared ==
  ~isStartRunning

====
